---- MODULE Spec2Model ----
(***************************************************************************)
(* Hebrew gematria service: the normalizer and calculator (backend.py),    *)
(* the batch seeding script (seed_db.py) and the REST layer (api.py).      *)
(* Characters are Unicode code points (integers); a string is a sequence   *)
(* of code points.                                                         *)
(***************************************************************************)
EXTENDS Integers, Sequences, FiniteSets, TLC

VARIABLES
    \* ---- calls of the pure functions and of the calculation endpoints
    text,       \* the raw input string
    norm,       \* <<_normalize(text)>> once called, <<>> before
    norm2,      \* <<_normalize(_normalize(text))>> once called
    gem,        \* <<get_gematria(text)>> once called
    bd,         \* <<gematria_breakdown(text)>> once called
    calc,       \* <<response of POST /gematria/calculate>> once called
    getw,       \* <<response of GET /gematria/word/{word}>> once called
    seed,       \* <<what seed_db computes for text>> once called
    \* ---- the gematria_words table, the seeding script, the lookup requests
    store,      \* committed rows of gematria_words
    now,        \* the clock read by datetime.utcnow
    exit,       \* how the last run of seed_db.main ended
    pc,         \* position of each lookup request
    req,        \* each request's body
    db,         \* each request's session (0: none)
    sessions,   \* session id -> [open, closes]
    words,      \* each request's first query result, while its handler runs
    listSize,   \* history: the number of rows in the table at the first query
    resp        \* each request's response

coreVars  == <<text, norm, norm2, gem, bd, calc, getw, seed>>
storeVars == <<store, now, exit>>
reqVars   == <<pc, req, db, sessions, words, listSize, resp>>
vars      == <<coreVars, storeVars, reqVars>>

\* ------------------------------------------------------------------ bounds
MaxLen == 3

\* Input characters: alef, final kaf, tav (last letter of the block), sheva
\* (a niqqud, U+05B0), U+05C7 (last of the niqqud range), U+05CF (the code
\* point before alef), U+05EB (the code point after tav), 'a'.
Chars == {1488, 1498, 1514, 1456, 1479, 1487, 1515, 97}

Strings == UNION {[1..n -> Chars] : n \in 0..MaxLen}

\* ------------------------------------------------------------- backend.py
GEMATRIA_MAP_no_finals ==
    (1488 :> 1) @@ (1489 :> 2) @@ (1490 :> 3) @@ (1491 :> 4) @@ (1492 :> 5) @@
    (1493 :> 6) @@ (1494 :> 7) @@ (1495 :> 8) @@ (1496 :> 9) @@
    (1497 :> 10) @@ (1499 :> 20) @@ (1500 :> 30) @@ (1502 :> 40) @@ (1504 :> 50) @@
    (1505 :> 60) @@ (1506 :> 70) @@ (1508 :> 80) @@ (1510 :> 90) @@
    (1511 :> 100) @@ (1512 :> 200) @@ (1513 :> 300) @@ (1514 :> 400)

GEMATRIA_MAP ==
    (1488 :> 1) @@ (1489 :> 2) @@ (1490 :> 3) @@ (1491 :> 4) @@ (1492 :> 5) @@
    (1493 :> 6) @@ (1494 :> 7) @@ (1495 :> 8) @@ (1496 :> 9) @@
    (1497 :> 10) @@ (1499 :> 20) @@ (1500 :> 30) @@ (1502 :> 40) @@ (1504 :> 50) @@
    (1505 :> 60) @@ (1506 :> 70) @@ (1508 :> 80) @@ (1510 :> 90) @@
    (1511 :> 100) @@ (1512 :> 200) @@ (1513 :> 300) @@ (1514 :> 400) @@
    (1498 :> 20) @@ (1501 :> 40) @@ (1503 :> 50) @@ (1507 :> 80) @@ (1509 :> 90)

\* re.compile(r'[\u0591-\u05C7]'): the characters the pattern matches
NIQQUD_AND_TAAMIM(ch) == ch \in 1425..1479

\* the class's range one letter short: [^\u05D0-\u05E9...]
NON_HEBREW_short(ch) == ~(ch \in (1488..1513) \cup {1498, 1501, 1503, 1507, 1509})

\* re.compile(r'[^\u05D0-\u05EA\u05DA\u05DD\u05DF\u05E3\u05E5]')
NON_HEBREW(ch) == ~(ch \in (1488..1514) \cup {1498, 1501, 1503, 1507, 1509})

\* pattern.sub('', s): s without the characters the pattern matches
RECURSIVE SubNiqqud(_, _)
SubNiqqud(s, i) ==
    IF i > Len(s) THEN <<>>
    ELSE IF NIQQUD_AND_TAAMIM(s[i]) THEN SubNiqqud(s, i + 1)
    ELSE <<s[i]>> \o SubNiqqud(s, i + 1)

RECURSIVE SubNonHebrew(_, _)
SubNonHebrew(s, i) ==
    IF i > Len(s) THEN <<>>
    ELSE IF NON_HEBREW(s[i]) THEN SubNonHebrew(s, i + 1)
    ELSE <<s[i]>> \o SubNonHebrew(s, i + 1)

_normalize(s) == SubNonHebrew(SubNiqqud(s, 1), 1)

\* dict.get(ch, 0)
MapGet(m, ch) == IF ch \in DOMAIN m THEN m[ch] ELSE 0

RECURSIVE SumFrom(_, _)
SumFrom(vals, i) == IF i > Len(vals) THEN 0 ELSE vals[i] + SumFrom(vals, i + 1)

get_gematria(s) ==
    LET t == _normalize(s)
    IN  SumFrom([i \in 1..Len(t) |-> MapGet(GEMATRIA_MAP, t[i])], 1)

\* GEMATRIA_MAP[ch] raises KeyError for a character outside the table
gematria_breakdown(s) ==
    LET t == _normalize(s)
    IN  IF \E i \in 1..Len(t) : t[i] \notin DOMAIN GEMATRIA_MAP
        THEN [raised |-> "KeyError", pairs |-> <<>>]
        ELSE [raised |-> "", pairs |-> [i \in 1..Len(t) |-> <<t[i], GEMATRIA_MAP[t[i]]>>]]

\* ------------------------------------------------------------- seed_db.py
\* the range one letter short: [^\u05D0-\u05E9]
normalize_short(word) == SelectSeq(word, LAMBDA ch : ch \in 1488..1513)

\* re.sub(r'[^\u05D0-\u05EA]', '', word), the range written with its letters
normalize(word) == SelectSeq(word, LAMBDA ch : ch \in 1488..1514)

gematria_values ==
    (1488 :> 1) @@ (1489 :> 2) @@ (1490 :> 3) @@ (1491 :> 4) @@ (1492 :> 5) @@
    (1493 :> 6) @@ (1494 :> 7) @@ (1495 :> 8) @@ (1496 :> 9) @@
    (1497 :> 10) @@ (1499 :> 20) @@ (1498 :> 20) @@ (1500 :> 30) @@ (1502 :> 40) @@
    (1501 :> 40) @@ (1504 :> 50) @@ (1503 :> 50) @@ (1505 :> 60) @@ (1506 :> 70) @@
    (1508 :> 80) @@ (1507 :> 80) @@ (1510 :> 90) @@ (1509 :> 90) @@
    (1511 :> 100) @@ (1512 :> 200) @@ (1513 :> 300) @@ (1514 :> 400)

\* final forms scored by Mispar Sofit instead of Mispar Gadol
gematria_value_sofit(word) ==
    SumFrom([i \in 1..Len(word) |->
                IF word[i] = 1498 THEN 500 ELSE gematria_values[word[i]]], 1)

\* sum(gematria_values[char] for char in word); the subscript raises KeyError
\* outside the table, which normalize's output never is
gematria_value(word) == SumFrom([i \in 1..Len(word) |-> gematria_values[word[i]]], 1)

\* ----------------------------------------------------------------- api.py
\* WordRequest: min_length=1, then validate_hebrew
WordRequestValid(w) == Len(w) >= 1 /\ _normalize(w) # <<>>

GematriaResponse(w) ==
    [word |-> w, normalized |-> _normalize(w), gematria |-> get_gematria(w)]

\* POST /gematria/calculate: the body is validated before the handler runs,
\* a failure is a RequestValidationError, answered 422
calculate_gematria(w) ==
    IF WordRequestValid(w)
    THEN [status |-> 200, body |-> <<GematriaResponse(w)>>]
    ELSE [status |-> 422, body |-> <<>>]

\* GET /gematria/word/{word}: an empty path segment matches no route (404);
\* WordRequest(word=word) is built inside the handler, where its
\* ValidationError is an unhandled exception, answered 500
get_word_gematria(w) ==
    IF Len(w) = 0 THEN [status |-> 404, body |-> <<>>]
    ELSE IF WordRequestValid(w)
    THEN [status |-> 200, body |-> <<GematriaResponse(w)>>]
    ELSE [status |-> 500, body |-> <<>>]

\* ------------------------------------------------- calls of the pure core
CallNormalize ==
    /\ norm = <<>>
    /\ norm' = <<_normalize(text)>>
    /\ UNCHANGED <<text, norm2, gem, bd, calc, getw, seed, storeVars, reqVars>>

CallNormalizeAgain ==
    /\ norm # <<>> /\ norm2 = <<>>
    /\ norm2' = <<_normalize(norm[1])>>
    /\ UNCHANGED <<text, norm, gem, bd, calc, getw, seed, storeVars, reqVars>>

CallGetGematria ==
    /\ gem = <<>>
    /\ gem' = <<get_gematria(text)>>
    /\ UNCHANGED <<text, norm, norm2, bd, calc, getw, seed, storeVars, reqVars>>

CallBreakdown ==
    /\ bd = <<>>
    /\ bd' = <<gematria_breakdown(text)>>
    /\ UNCHANGED <<text, norm, norm2, gem, calc, getw, seed, storeVars, reqVars>>

CallCalculate ==
    /\ calc = <<>>
    /\ calc' = <<calculate_gematria(text)>>
    /\ UNCHANGED <<text, norm, norm2, gem, bd, getw, seed, storeVars, reqVars>>

CallGetWord ==
    /\ getw = <<>>
    /\ getw' = <<get_word_gematria(text)>>
    /\ UNCHANGED <<text, norm, norm2, gem, bd, calc, seed, storeVars, reqVars>>

\* seed_db.main's two calls on one line
CallSeed ==
    /\ seed = <<>>
    /\ seed' = <<[normalized |-> normalize(text),
                  gematria |-> gematria_value(normalize(text))]>>
    /\ UNCHANGED <<text, norm, norm2, gem, bd, calc, getw, storeVars, reqVars>>

\* ------------------------------------------ gematria_words and seed_db.main
\* the clock's last value: later reads repeat it
MaxClock == 1

\* Lines of words.txt: alef + final kaf, the same with a sheva (same normalized
\* form), final kaf + alef (same gematria, another normalized form), a blank
\* line, a line without a Hebrew letter
FileLines ==
    { <<1488, 1498, 10>>, <<1488, 1456, 1498, 10>>, <<1498, 1488, 10>>,
      <<10>>, <<97, 10>> }

\* words.txt: no line, one line or two lines
Files ==
    {<<>>} \cup {<<a>> : a \in FileLines} \cup {<<a, b>> : a, b \in FileLines}

\* str.strip(): without leading and trailing whitespace
Whitespace == {9, 10, 11, 12, 13, 32}

RECURSIVE LStrip(_)
LStrip(s) == IF s # <<>> /\ Head(s) \in Whitespace THEN LStrip(Tail(s)) ELSE s

RECURSIVE RStrip(_)
RStrip(s) ==
    IF s # <<>> /\ s[Len(s)] \in Whitespace THEN RStrip(SubSeq(s, 1, Len(s) - 1)) ELSE s

Strip(s) == RStrip(LStrip(s))

\* the loop of main: one GematriaWords object per line, in the file's order
Added(file) ==
    [i \in 1..Len(file) |->
        LET stripped_word == normalize(file[i])
        IN  [text |-> Strip(file[i]),
             normalized |-> stripped_word,
             gematria |-> gematria_value(stripped_word)]]

\* a table without the unique constraint
NoUniqueViolation(rows, row) == FALSE

\* normalized = Column(String, nullable=False, unique=True)
UniqueViolation(rows, row) == \E r \in rows : r.normalized = row.normalized

\* a script that replaces the table's content
CommitReplace(st, rows) == rows

\* COMMIT: the transaction's rows join the table; nothing is updated or deleted
Commit(st, rows) == st \cup rows

\* The flush of session.commit(): one INSERT per added object, in order. Each
\* row takes its created_at from utcnow (ticks[i] says whether the clock moved
\* since the last read). The first unique violation raises IntegrityError and
\* the transaction is rolled back. The surrogate id is left out: nothing
\* reads it.
RECURSIVE Flush(_, _, _, _, _, _)
Flush(st, pend, ticks, i, tx, t) ==
    IF i > Len(pend)
    THEN [ok |-> TRUE, rows |-> tx, now |-> t]
    ELSE LET row == [text |-> pend[i].text,
                     normalized |-> pend[i].normalized,
                     gematria |-> pend[i].gematria,
                     created_at |-> t + ticks[i]]
         IN  IF UniqueViolation(st \cup tx, row)
             THEN [ok |-> FALSE, rows |-> {}, now |-> t + ticks[i]]
             ELSE Flush(st, pend, ticks, i + 1, tx \cup {row}, t + ticks[i])

\* One run of seed_db.main on a file. The rows of a transaction become visible
\* to other sessions together, at COMMIT, so the run is one step for them.
main(file) ==
    /\ \E ticks \in [1..Len(file) -> {0, 1}] :
          LET out == Flush(store, Added(file), ticks, 1, {}, now)
          IN  /\ out.now <= MaxClock
              /\ store' = IF out.ok THEN Commit(store, out.rows) ELSE store
              /\ exit' = IF out.ok THEN "ok" ELSE "IntegrityError"
              /\ now' = out.now
    /\ UNCHANGED <<coreVars, reqVars>>

\* --------------------------------------------- POST /gematria/top (api.py)
\* requests, numbered in the order they arrive
Requests == {1, 2}
Gematrias == {-1, 0, 21}
Limits == {0, 1, 100, 101}

\* TopWordsRequest: gematria ge=0, limit ge=1 le=100
TopWordsRequestValid(r) == r.gematria >= 0 /\ r.limit >= 1 /\ r.limit <= 100

\* the query without its filter
AllRows(st, g) == st

\* .filter(GematriaWord.gematria == request.gematria)
Matching(st, g) == {row \in st : row.gematria = g}

Min(a, b) == IF a < b THEN a ELSE b

Range(s) == {s[i] : i \in 1..Len(s)}

\* .order_by(created_at.asc()) in place of .desc()
OrderedAsc(s) == \A i, j \in 1..Len(s) : i < j => s[i].created_at <= s[j].created_at

\* .order_by(GematriaWord.created_at.desc())
Ordered(s) == \A i, j \in 1..Len(s) : i < j => s[i].created_at >= s[j].created_at

\* .order_by(...).limit(n).all(): the first n of the matching rows in the
\* requested order; rows with equal created_at come in any order
TopRows(st, g, n) ==
    LET m == Matching(st, g)
        k == Min(n, Cardinality(m))
    IN  { s \in [1..k -> m] :
            /\ \A i, j \in 1..k : i # j => s[i] # s[j]
            /\ Ordered(s)
            /\ \A row \in m \ Range(s) : Ordered(s \o <<row>>) }

\* .count()
CountRows(st, g) == Cardinality(Matching(st, g))

NoBody == [gematria |-> 0, limit |-> 0]

\* get_db up to its yield: a new session for this request; then the body is
\* validated, and the handler runs only for a valid body
ReqOpen(r) ==
    /\ pc[r] = "idle"
    /\ \A q \in Requests : q < r => pc[q] # "idle"
    /\ \E g \in Gematrias, n \in Limits :
          LET body == [gematria |-> g, limit |-> n]
              s == Len(sessions) + 1
          IN  /\ sessions' = Append(sessions, [open |-> TRUE, closes |-> 0])
              /\ db' = [db EXCEPT ![r] = s]
              /\ IF TopWordsRequestValid(body)
                 THEN /\ pc' = [pc EXCEPT ![r] = "handler"]
                      /\ req' = [req EXCEPT ![r] = body]
                      /\ resp' = resp
                 ELSE /\ pc' = [pc EXCEPT ![r] = "exit"]
                      /\ req' = req
                      /\ resp' = [resp EXCEPT ![r] = <<[status |-> 422]>>]
    /\ UNCHANGED <<coreVars, storeVars, words, listSize>>

\* the first query of get_top_words
ReqList(r) ==
    /\ pc[r] = "handler"
    /\ \E s \in TopRows(store, req[r].gematria, req[r].limit) :
          words' = [words EXCEPT ![r] = s]
    /\ listSize' = [listSize EXCEPT ![r] = Cardinality(store)]
    /\ pc' = [pc EXCEPT ![r] = "listed"]
    /\ UNCHANGED <<coreVars, storeVars, req, db, sessions, resp>>

\* the second query of get_top_words and the return of the response
ReqCount(r) ==
    /\ pc[r] = "listed"
    /\ LET total_count == CountRows(store, req[r].gematria)
       IN  /\ resp' = [resp EXCEPT ![r] =
                 <<[status |-> 200,
                    gematria |-> req[r].gematria,
                    count |-> total_count,
                    words |-> [i \in 1..Len(words[r]) |->
                                 [word |-> words[r][i].text,
                                  normalized |-> words[r][i].normalized,
                                  gematria |-> words[r][i].gematria]]]>>]
    /\ pc' = [pc EXCEPT ![r] = "exit"]
    /\ words' = [words EXCEPT ![r] = <<>>]
    /\ UNCHANGED <<coreVars, storeVars, req, db, sessions, listSize>>

\* a query raises (the store is unreachable): the handler ends by the
\* exception, answered 500
ReqRaise(r) ==
    /\ pc[r] \in {"handler", "listed"}
    /\ resp' = [resp EXCEPT ![r] = <<[status |-> 500]>>]
    /\ pc' = [pc EXCEPT ![r] = "exit"]
    /\ req' = [req EXCEPT ![r] = NoBody]
    /\ words' = [words EXCEPT ![r] = <<>>]
    /\ listSize' = [listSize EXCEPT ![r] = 0]
    /\ UNCHANGED <<coreVars, storeVars, db, sessions>>

\* db.close() only when the handler returned
ClosesOnExit_noFinally(status) == status = 200

\* try: yield db / finally: db.close()
ClosesOnExit(status) == TRUE

\* the rest of get_db, run when the request ends; of the request only the
\* status it was answered with is kept
ReqExit(r) ==
    /\ pc[r] = "exit"
    /\ sessions' = IF ClosesOnExit(resp[r][1].status)
                   THEN [sessions EXCEPT ![db[r]] =
                            [open |-> FALSE, closes |-> @.closes + 1]]
                   ELSE sessions
    /\ pc' = [pc EXCEPT ![r] = "done"]
    /\ req' = [req EXCEPT ![r] = NoBody]
    /\ listSize' = [listSize EXCEPT ![r] = 0]
    /\ resp' = [resp EXCEPT ![r] = <<[status |-> resp[r][1].status]>>]
    /\ UNCHANGED <<coreVars, storeVars, db, words>>

ReqStep(r) == ReqList(r) \/ ReqCount(r) \/ ReqRaise(r) \/ ReqExit(r)

\* ---------------------------------------------------------- specifications
CoreInit ==
    /\ norm = <<>> /\ norm2 = <<>> /\ gem = <<>> /\ bd = <<>>
    /\ calc = <<>> /\ getw = <<>> /\ seed = <<>>

TableInit == store = {} /\ now = 0 /\ exit = "none"

ReqInit ==
    /\ pc = [r \in Requests |-> "idle"]
    /\ req = [r \in Requests |-> NoBody]
    /\ db = [r \in Requests |-> 0]
    /\ sessions = <<>>
    /\ words = [r \in Requests |-> <<>>]
    /\ listSize = [r \in Requests |-> 0]
    /\ resp = [r \in Requests |-> <<>>]

\* seeding runs and a lookup request, in any interleaving
Init == text = <<>> /\ CoreInit /\ TableInit /\ ReqInit

Next ==
    \/ \E file \in Files : main(file)
    \/ \E r \in {1} : ReqOpen(r)
    \/ \E r \in {1} : ReqList(r)
    \/ \E r \in {1} : ReqCount(r)
    \/ \E r \in {1} : ReqRaise(r)
    \/ \E r \in {1} : ReqExit(r)

Spec == Init /\ [][Next]_vars

\* the tables one seeding run leaves
Seeded ==
    { [store |-> IF out.ok THEN Commit({}, out.rows) ELSE {},
       now |-> out.now,
       exit |-> IF out.ok THEN "ok" ELSE "IntegrityError"] :
        out \in { o \in UNION { { Flush({}, Added(file), ticks, 1, {}, 0) :
                                    ticks \in [1..Len(file) -> {0, 1}] } :
                                file \in Files } :
                    o.now <= MaxClock } }

\* concurrent lookup requests on a seeded table; a request that was started
\* runs to its end
InitLookups ==
    /\ text = <<>> /\ CoreInit /\ ReqInit
    /\ \E t \in Seeded : store = t.store /\ now = t.now /\ exit = t.exit

NextLookups ==
    \/ \E r \in Requests : ReqOpen(r)
    \/ \E r \in Requests : ReqList(r)
    \/ \E r \in Requests : ReqCount(r)
    \/ \E r \in Requests : ReqRaise(r)
    \/ \E r \in Requests : ReqExit(r)

SpecLookups ==
    InitLookups /\ [][NextLookups]_vars /\ \A r \in Requests : WF_vars(ReqStep(r))

\* the pure functions and the calculation endpoints, on every bounded string
InitCore == text \in Strings /\ CoreInit /\ TableInit /\ ReqInit

NextCore ==
    \/ CallNormalize \/ CallNormalizeAgain \/ CallGetGematria \/ CallBreakdown
    \/ CallCalculate \/ CallGetWord \/ CallSeed

SpecCore == InitCore /\ [][NextCore]_vars

\* ------------------------------------------------------------ properties
\* the 22 base letters and the 5 final forms, by code point
BaseLetters ==
    {1488, 1489, 1490, 1491, 1492, 1493, 1494, 1495, 1496, 1497, 1499, 1500,
     1502, 1504, 1505, 1506, 1508, 1510, 1511, 1512, 1513, 1514}

FinalLetters == {1498, 1501, 1503, 1507, 1509}

IsLetter(ch) == ch \in BaseLetters \cup FinalLetters

\* the table row a response item was built from
RowOf(w) == CHOOSE row \in store : row.normalized = w.normalized

\* a lookup that was answered, both of whose queries read the table as it is now
AnsweredOnTable(r) ==
    /\ pc[r] = "exit" /\ resp[r][1].status = 200
    /\ listSize[r] = Cardinality(store)

\* C1: a lookup for g with limit n on a table that seeding produced returns
\* as count the number of rows whose gematria is g, and as words exactly
\* min(n, count) distinct rows of gematria g, a later created row never after
\* an earlier created one, and no row left out that is later than a listed one.
C1_LookupResult ==
    \A r \in Requests :
        AnsweredOnTable(r) =>
            LET out == resp[r][1]
                g == req[r].gematria
                m == {row \in store : row.gematria = g}
                k == Len(out.words)
            IN  /\ out.gematria = g
                /\ out.count = Cardinality(m)
                /\ k = (IF req[r].limit < out.count THEN req[r].limit ELSE out.count)
                /\ \A i \in 1..k :
                      /\ out.words[i].gematria = g
                      /\ \E row \in m : /\ row.normalized = out.words[i].normalized
                                        /\ row.text = out.words[i].word
                /\ \A i, j \in 1..k : i # j => out.words[i] # out.words[j]
                /\ \A i, j \in 1..k :
                      i < j => RowOf(out.words[i]).created_at >= RowOf(out.words[j]).created_at
                /\ \A row \in m :
                      (\A i \in 1..k : out.words[i].normalized # row.normalized)
                          => \A i \in 1..k : RowOf(out.words[i]).created_at >= row.created_at

\* two rows of gematria 21 created at different times, limit 1: count is 2 and
\* one row is listed
C1_Witness ==
    /\ AnsweredOnTable(1)
    /\ req[1].limit = 1 /\ req[1].gematria = 21
    /\ resp[1][1].count = 2 /\ Len(resp[1][1].words) = 1
    /\ \E a, b \in store :
          a.gematria = 21 /\ b.gematria = 21 /\ a.created_at < b.created_at

\* C2: whatever files were seeded, in however many runs, no two rows of the
\* table have the same normalized value.
C2_NormalizedUnique ==
    \A a, b \in store : a.normalized = b.normalized => a = b

\* a run was rejected for a duplicate while the table holds rows
C2_Witness == exit = "IntegrityError" /\ Cardinality(store) >= 2

\* C3: every row seeding stored has the gematria that backend.get_gematria
\* computes from the row's normalized field.
C3_GematriaOfNormalized ==
    \A row \in store : row.gematria = get_gematria(row.normalized)

\* a stored row whose normalized form has a final letter
C3_Witness ==
    \E row \in store :
        /\ row.gematria = 21
        /\ \E i \in 1..Len(row.normalized) : row.normalized[i] \in FinalLetters

\* C4: no row with an empty normalized field is ever stored (blank and
\* letter-less lines are skipped).
C4_NoEmptyRecord == \A row \in store : row.normalized # <<>>

\* the outcome a calculation operation is to give for a text
ClientError(out) == out.status >= 400 /\ out.status <= 499 /\ out.body = <<>>

Calculated(out, w) ==
    IF SelectSeq(w, IsLetter) = <<>>
    THEN ClientError(out)
    ELSE /\ out.status = 200
         /\ out.body = <<[word |-> w, normalized |-> _normalize(w),
                          gematria |-> get_gematria(w)]>>

\* C5: POST /gematria/calculate and GET /gematria/word/{word} answer a text
\* without a Hebrew letter with a client error and no result, and any other
\* text with 200 and the text, its normalized form and its gematria; the two
\* give the same outcome for the same text.
C5_CalculationOutcome ==
    /\ calc # <<>> => Calculated(calc[1], text)
    /\ getw # <<>> => Calculated(getw[1], text)
    /\ (calc # <<>> /\ getw # <<>>) =>
          /\ calc[1].body = getw[1].body
          /\ ClientError(calc[1]) <=> ClientError(getw[1])

RECURSIVE SumValues(_)
SumValues(pairs) == IF pairs = <<>> THEN 0 ELSE Head(pairs)[2] + SumValues(Tail(pairs))

\* C6: gematria_breakdown raises nothing and returns one (letter, value) pair
\* per letter of the normalized text, in order, and the values add up to
\* get_gematria of the text.
C6_BreakdownSum ==
    /\ bd # <<>> => bd[1].raised = ""
    /\ (bd # <<>> /\ norm # <<>>) =>
          /\ Len(bd[1].pairs) = Len(norm[1])
          /\ \A i \in 1..Len(norm[1]) :
                /\ bd[1].pairs[i][1] = norm[1][i]
                /\ bd[1].pairs[i][2] >= 1 /\ bd[1].pairs[i][2] <= 400
    /\ (bd # <<>> /\ gem # <<>>) => gem[1] = SumValues(bd[1].pairs)

\* a text with a final letter, another letter and something that is dropped
C6_Witness ==
    /\ bd # <<>> /\ gem # <<>> /\ norm # <<>>
    /\ Len(bd[1].pairs) = 2 /\ Len(text) = 3
    /\ \E i \in 1..2 : bd[1].pairs[i][1] \in FinalLetters
    /\ gem[1] = 420

\* C7: _normalize keeps exactly the characters that are one of the 27 letters,
\* in their order; normalizing again changes nothing; the empty string gives
\* the empty string.
C7_NormalizeFilter ==
    /\ norm # <<>> => norm[1] = SelectSeq(text, IsLetter)
    /\ (norm # <<>> /\ text = <<>>) => norm[1] = <<>>
    /\ norm2 # <<>> => norm2[1] = norm[1]

\* a letter, a niqqud and the last letter of the block: two letters are kept
C7_Witness ==
    /\ norm2 # <<>>
    /\ text = <<1498, 1456, 1514>>
    /\ norm[1] = <<1498, 1514>>

\* C8: a lookup request's session is its own, is open while the request runs,
\* and is closed exactly once when the request has ended, however it ended;
\* a request that has its session ends.
C8_SessionClosed ==
    /\ [](\A r \in Requests :
            pc[r] \in {"handler", "listed", "exit"} =>
                /\ db[r] \in 1..Len(sessions)
                /\ sessions[db[r]].open /\ sessions[db[r]].closes = 0)
    /\ [](\A r \in Requests :
            pc[r] = "done" =>
                ~sessions[db[r]].open /\ sessions[db[r]].closes = 1)
    /\ [](\A r, q \in Requests : (r # q /\ db[r] # 0) => db[r] # db[q])
    /\ \A r \in Requests : (pc[r] \in {"handler", "listed", "exit"}) ~> (pc[r] = "done")

\* one request ended by an exception and one by a response, both sessions closed
C8_Witness ==
    /\ pc[1] = "done" /\ pc[2] = "done"
    /\ resp[1][1].status = 500 /\ resp[2][1].status = 200
    /\ \A s \in 1..Len(sessions) : ~sessions[s].open

\* C9: with seeding runs committing between the two queries of a lookup, the
\* response still lists at most min(limit, count) rows, each of the requested
\* gematria.
C9_InterleavedLookup ==
    \A r \in Requests :
        (pc[r] = "exit" /\ resp[r][1].status = 200) =>
            LET out == resp[r][1]
            IN  /\ Len(out.words) <= req[r].limit
                /\ Len(out.words) <= out.count
                /\ \A i \in 1..Len(out.words) : out.words[i].gematria = req[r].gematria

\* a run committed between the two queries: the count is above the number of
\* listed rows though the limit was not reached
C9_Witness ==
    /\ pc[1] = "exit" /\ resp[1][1].status = 200
    /\ listSize[1] < Cardinality(store)
    /\ Len(resp[1][1].words) = 1
    /\ resp[1][1].count = 2
    /\ req[1].limit = 100

\* C10: on every text seed_db.normalize gives what backend._normalize gives,
\* the two tables give each kept letter the same value, and what seeding
\* would store is what the calculation endpoint returns.
C10_SeedAgreesWithCore ==
    /\ (seed # <<>> /\ norm # <<>>) =>
          /\ seed[1].normalized = norm[1]
          /\ \A i \in 1..Len(norm[1]) :
                gematria_values[norm[1][i]] = GEMATRIA_MAP[norm[1][i]]
    /\ (seed # <<>> /\ gem # <<>>) => seed[1].gematria = gem[1]
    /\ (seed # <<>> /\ calc # <<>> /\ calc[1].status = 200) =>
          /\ seed[1].normalized = calc[1].body[1].normalized
          /\ seed[1].gematria = calc[1].body[1].gematria

\* a text with a final letter, a niqqud and the last letter of the block
C10_Witness ==
    /\ seed # <<>> /\ norm # <<>> /\ gem # <<>> /\ calc # <<>>
    /\ text = <<1498, 1456, 1514>>
    /\ seed[1].gematria = 420

====
